---- MODULE Spec2Model ----
(***************************************************************************)
(* Model of node-zerox/src/utils.ts: the orientation selector              *)
(* (getTextFromImage, determineOptimalRotation) and the markdown AST       *)
(* flattener (markdownToJson, processRootNode, processNode,                *)
(* nodeProcessors, processListItem).                                       *)
(***************************************************************************)
EXTENDS Integers, Sequences, FiniteSets

(***************************************************************************)
(* Bounds of the model.                                                    *)
(***************************************************************************)
\* OCR confidences range over MIN_ROTATION_CONFIDENCE-MaxDelta .. +MaxDelta
MaxDelta == 1
\* total number of top-level children handed to markdownToJson, all pages
MaxChildren == 3
\* number of markdownToJson calls (pages 1..MaxPages)
MaxPages == 2
\* heading depths 1..MaxDepth
MaxDepth == 3
\* number of children of one generated list item
MaxItemChildren == 2

(***************************************************************************)
(* Program constants.                                                      *)
(***************************************************************************)
MIN_ROTATION_CONFIDENCE == 60
rotations == <<0, 90, 180, 270>>
\* JavaScript's undefined, for an id or a page that was never assigned
undefined == 0

VARIABLES
  \* ---- determineOptimalRotation ----
  ocr,              \* input: what Tesseract.recognize reports per rotation
  trial,            \* the four promises of rotations.map: [pc, confidence]
  results,          \* the values array Promise.all collects
  completed,        \* indices of the trials in the order they resolved
  outcome,          \* "pending" | "returned" | "rejected"
  optimalRotation,  \* the value determineOptimalRotation resolved to
  \* ---- markdownToJson ----
  page,             \* the page argument of the current call
  parsedMd,         \* parsedMd.children visited so far by forEach
  parentIdManager,  \* the heading stack
  processedNodes,   \* the output array of the current call
  mainIds,          \* per visited child: id of its main node, or undefined
  idAtCall,         \* next nanoid value when the current call started
  nextId,           \* next value nanoid() returns (fresh on every call)
  allNodes,         \* the outputs of the finished calls, concatenated
  visited,          \* number of top-level children visited, all calls
  \* ---- processListItem on its own ----
  itemIn,           \* input list-item node
  itemOut,          \* result of processListItem(itemIn, page)
  itemPc            \* "call" | "done"

rotVars  == <<ocr, trial, results, completed, outcome, optimalRotation>>
flatVars == <<page, parsedMd, parentIdManager, processedNodes, mainIds,
              idAtCall, nextId, allNodes, visited>>
itemVars == <<itemIn, itemOut, itemPc>>
vars == <<ocr, trial, results, completed, outcome, optimalRotation,
          page, parsedMd, parentIdManager, processedNodes, mainIds,
          idAtCall, nextId, allNodes, visited, itemIn, itemOut, itemPc>>

(***************************************************************************)
(* Orientation selector                                                    *)
(***************************************************************************)
Trials == 1..Len(rotations)
Confidences == {MIN_ROTATION_CONFIDENCE + d : d \in (0 - MaxDelta)..MaxDelta}
NoResult == [rotation |-> 0 - 1, confidence |-> 0 - 1]

\* Promise.all stores the value of the i-th promise at index i, whatever the
\* order in which the promises resolve.
CollectInCompletionOrder(res, i, r) ==
  LET free == {k \in Trials : res[k] = NoResult}
      k0   == CHOOSE k \in free : \A j \in free : k <= j
  IN  [res EXCEPT ![k0] = r]

Collect(res, i, r) == [res EXCEPT ![i] = r]

RECURSIVE reduce(_, _, _)
ReduceKeepLast(res, i, best) ==
  IF i > Len(res) THEN best
  ELSE reduce(res, i + 1,
              IF res[i].confidence >= best.confidence THEN res[i] ELSE best)

\* results.reduce((best, current) =>
\*   current.confidence > best.confidence ? current : best), from index 1
\* with results[0] as the initial accumulator
reduce(res, i, best) ==
  IF i > Len(res) THEN best
  ELSE reduce(res, i + 1,
              IF res[i].confidence > best.confidence THEN res[i] ELSE best)

bestResult(res) == reduce(res, 2, res[1])

\* the gate of determineOptimalRotation
gate(best) ==
  IF best.confidence >= MIN_ROTATION_CONFIDENCE /\ best.rotation # 0
  THEN best.rotation
  ELSE 0

InitRot ==
  /\ ocr \in [Trials -> Confidences]
  /\ trial = [i \in Trials |-> [pc |-> "rotate", confidence |-> 0 - 1]]
  /\ results = [i \in Trials |-> NoResult]
  /\ completed = <<>>
  /\ outcome = "pending"
  /\ optimalRotation = 0 - 1

IdleRot ==
  /\ ocr = [i \in Trials |-> MIN_ROTATION_CONFIDENCE]
  /\ trial = [i \in Trials |-> [pc |-> "rotate", confidence |-> 0 - 1]]
  /\ results = [i \in Trials |-> NoResult]
  /\ completed = <<>>
  /\ outcome = "pending"
  /\ optimalRotation = 0 - 1

\* image.clone().rotate(rotation).toBuffer(): outside every try/catch, so a
\* rejection here rejects the promise of the trial
RotateImage(i) ==
  /\ trial[i].pc = "rotate"
  /\ \E ok \in BOOLEAN :
       trial' = [trial EXCEPT ![i].pc = IF ok THEN "ocr" ELSE "threw"]
  /\ UNCHANGED <<ocr, results, completed, outcome, optimalRotation>>
  /\ UNCHANGED flatVars /\ UNCHANGED itemVars

\* getTextFromImage: the recognizer's confidence, or 0 from the catch block;
\* the trial then resolves to {rotation, confidence}
GetTextFromImage(i) ==
  /\ trial[i].pc = "ocr"
  /\ \E ok \in BOOLEAN :
       LET confidence == IF ok THEN ocr[i] ELSE 0
       IN  /\ trial' = [trial EXCEPT ![i] =
                          [pc |-> "done", confidence |-> confidence]]
           /\ results' = Collect(results, i,
                           [rotation |-> rotations[i],
                            confidence |-> confidence])
  /\ completed' = Append(completed, i)
  /\ UNCHANGED <<ocr, outcome, optimalRotation>>
  /\ UNCHANGED flatVars /\ UNCHANGED itemVars

\* Promise.all resolved: reduce, gate, return
ReturnRotation ==
  /\ outcome = "pending"
  /\ \A i \in Trials : trial[i].pc = "done"
  /\ optimalRotation' = gate(bestResult(results))
  /\ outcome' = "returned"
  /\ UNCHANGED <<ocr, trial, results, completed>>
  /\ UNCHANGED flatVars /\ UNCHANGED itemVars

\* Promise.all rejects as soon as one promise rejects; the await rethrows
RejectRotation ==
  /\ outcome = "pending"
  /\ \E i \in Trials : trial[i].pc = "threw"
  /\ outcome' = "rejected"
  /\ UNCHANGED <<ocr, trial, results, completed, optimalRotation>>
  /\ UNCHANGED flatVars /\ UNCHANGED itemVars

(***************************************************************************)
(* mdast input                                                             *)
(***************************************************************************)
Node(type, depth, value, children) ==
  [type |-> type, depth |-> depth, value |-> value, children |-> children]
Text(s)        == Node("text", 0, s, <<>>)
Image          == Node("image", 0, "", <<>>)
ThematicBreak  == Node("thematicBreak", 0, "", <<>>)
Paragraph(ch)  == Node("paragraph", 0, "", ch)
Blockquote(ch) == Node("blockquote", 0, "", ch)
Heading(d)     == Node("heading", d, "", <<Text("h")>>)
ListItem(ch)   == Node("listItem", 0, "", ch)
List(items)    == Node("list", 0, "", items)

SeqsUpTo(S, n) == UNION {[1..k -> S] : k \in 0..n}

\* list items without nested lists, and lists of one such item
Items0 == {ListItem(ch) :
             ch \in SeqsUpTo({Paragraph(<<Text("a")>>), ThematicBreak},
                             MaxItemChildren)}
Lists0 == {List(<<it>>) : it \in Items0}
\* list items whose children may be nested lists
Items1 == {ListItem(ch) :
             ch \in SeqsUpTo({Paragraph(<<Text("a")>>), ThematicBreak}
                               \cup Lists0, MaxItemChildren)}

Inner == List(<<ListItem(<<Paragraph(<<Text("b")>>)>>)>>)
\* the top-level children markdownToJson is run on
TopLevel ==
  {Heading(d) : d \in 1..MaxDepth} \cup
  { Paragraph(<<Text("a")>>),
    Paragraph(<<Text("a"), Image, Text("b")>>),
    Image,
    ThematicBreak,
    List(<<ListItem(<<Paragraph(<<Text("a")>>)>>)>>),
    List(<<ListItem(<<Paragraph(<<Text("a")>>), Paragraph(<<Text("b")>>)>>),
           ListItem(<<>>)>>),
    List(<<ListItem(<<Paragraph(<<Text("a")>>), Inner>>)>>),
    List(<<ListItem(<<Inner>>)>>),
    List(<<ListItem(<<ThematicBreak, Inner, Paragraph(<<Text("a")>>)>>)>>),
    List(<<ListItem(<<Paragraph(<<Text("a")>>),
                      List(<<ListItem(<<Paragraph(<<Text("b")>>), Inner>>)>>)
                    >>)>>),
    Blockquote(<<Paragraph(<<Text("a")>>),
                 List(<<ListItem(<<Paragraph(<<Text("a")>>), Inner>>)>>)>>) }

(***************************************************************************)
(* Values of a ProcessedNode: a string, an array (ListItem[]), an object   *)
(* (a ProcessedNode held as a value) or undefined                          *)
(***************************************************************************)
Str(s) == [kind |-> "string", s |-> s, a |-> <<>>]
Arr(a) == [kind |-> "array", s |-> "", a |-> a]
Obj(n) == [kind |-> "object", s |-> "", a |-> <<n>>]
Undef  == [kind |-> "undefined", s |-> "", a |-> <<>>]

RECURSIVE toStr(_)
RECURSIVE join(_, _, _)
\* String(v) as the + operator and Array.prototype.join apply it
toStr(v) ==
  CASE v.kind = "string" -> v.s
    [] v.kind = "array"  -> join(v.a, ",", 1)
    [] v.kind = "object" -> "[object Object]"
    [] OTHER             -> "undefined"

\* Array.prototype.join: undefined elements become the empty string
join(a, sep, i) ==
  IF i > Len(a) THEN ""
  ELSE (IF a[i].kind = "undefined" THEN "" ELSE toStr(a[i]))
         \o (IF i < Len(a) THEN sep ELSE "")
         \o join(a, sep, i + 1)

(***************************************************************************)
(* Flattener                                                               *)
(***************************************************************************)
literals == {"code", "html", "inlineCode", "text"}
ignoreNodeTypes ==
  {"break", "definition", "image", "imageReference", "thematicBreak"}
ConvertedNodeType == {"heading", "list", "text"}

\* ConvertedNodeType[node.type] || ConvertedNodeType.text
ConvertedType(t) == IF t \in ConvertedNodeType THEN t ELSE "text"

\* nanoid(): the value handed out and the generator's next value
nanoid(nid) == [id |-> nid, nid |-> nid + 1]

NoNode == [id |-> undefined, page |-> undefined, parentId |-> undefined,
           type |-> "undefined", value |-> Undef]

RECURSIVE processNode(_, _, _, _)
RECURSIVE mapProcessNode(_, _, _, _)
RECURSIVE processListItemLoop(_, _, _, _, _, _, _)
RECURSIVE gatherSiblingsFrom(_, _)

GatherValueKeepUndefined(result) ==
  [k \in 1..Len(result) |->
     IF result[k].defined THEN result[k].mainNode.value ELSE Str("")]

\* result.filter((r) => Boolean(r)).map((r) => r.mainNode.value)
gatherValue(result) ==
  [k \in 1..Len(SelectSeq(result, LAMBDA r : r.defined)) |->
     SelectSeq(result, LAMBDA r : r.defined)[k].mainNode.value]

gatherSiblingsFrom(result, i) ==
  IF i > Len(result) THEN <<>>
  ELSE (IF result[i].defined THEN result[i].siblings ELSE <<>>)
         \o gatherSiblingsFrom(result, i + 1)

\* result.reduce((acc, r) => (Boolean(r) ? acc.concat(r.siblings) : acc), [])
gatherSiblings(result) == gatherSiblingsFrom(result, 1)

\* the array map builds: the result r of one child, then those of the rest
mapCons(r, rest) ==
  [result |-> <<[defined |-> r.defined, mainNode |-> r.mainNode,
                 siblings |-> r.siblings]>> \o rest.result,
   nid |-> rest.nid]

mapRest(children, pg, i, r) ==
  mapCons(r, mapProcessNode(children, pg, r.nid, i + 1))

\* node.children.map((childNode) => processNode(childNode, page)), with the
\* id generator threaded through the calls
mapProcessNode(children, pg, nid, i) ==
  IF i > Len(children) THEN [result |-> <<>>, nid |-> nid]
  ELSE mapRest(children, pg, i, processNode(children[i], pg, undefined, nid))

\* the branch of processListItem for a child that is not a list; p is the
\* processNode result of child i
itemContent(children, pg, i, has, newNode, siblings, p) ==
  IF ~p.defined
  THEN processListItemLoop(children, pg, i + 1, has, newNode, siblings, p.nid)
  ELSE processListItemLoop(children, pg, i + 1, TRUE,
         IF has
         THEN [newNode EXCEPT !.value =
                 Str(toStr(newNode.value) \o toStr(p.mainNode.value))]
         ELSE p.mainNode,
         siblings \o p.siblings, p.nid)

\* the placeholder main node of an item that starts with a nested list
placeholder(nid) ==
  [id |-> nanoid(nid).id, page |-> undefined, parentId |-> undefined,
   type |-> "text", value |-> Str("")]

\* the branch of processListItem for a nested list, after newNode is set;
\* p is the processNode result of the list
itemNestedList(children, pg, i, newNode, siblings, p) ==
  processListItemLoop(children, pg, i + 1, TRUE, newNode,
    IF p.defined THEN siblings \o <<p.mainNode>> \o p.siblings ELSE siblings,
    p.nid)

ProcessListItemLoopNoParent(children, pg, i, has, newNode, siblings, nid) ==
  IF i > Len(children)
  THEN [has |-> has, node |-> newNode, siblings |-> siblings, nid |-> nid]
  ELSE
    IF children[i].type # "list"
    THEN itemContent(children, pg, i, has, newNode, siblings,
                     processNode(children[i], pg, undefined, nid))
    ELSE IF has
         THEN itemNestedList(children, pg, i, newNode, siblings,
                processNode(children[i], pg, undefined, nid))
         ELSE itemNestedList(children, pg, i, placeholder(nid), siblings,
                processNode(children[i], pg, undefined, nanoid(nid).nid))

\* the forEach body of processListItem, from child i on
processListItemLoop(children, pg, i, has, newNode, siblings, nid) ==
  IF i > Len(children)
  THEN [has |-> has, node |-> newNode, siblings |-> siblings, nid |-> nid]
  ELSE
    IF children[i].type # "list"
    THEN itemContent(children, pg, i, has, newNode, siblings,
                     processNode(children[i], pg, undefined, nid))
    ELSE IF has
         THEN itemNestedList(children, pg, i, newNode, siblings,
                processNode(children[i], pg, newNode.id, nid))
         ELSE itemNestedList(children, pg, i, placeholder(nid), siblings,
                processNode(children[i], pg, placeholder(nid).id,
                            nanoid(nid).nid))

processListItem(node, pg, nid) ==
  processListItemLoop(node.children, pg, 1, FALSE, NoNode, <<>>, nid)

\* nodeProcessors.literal
literalProcessor(node, nid) ==
  [value |-> Str(node.value), siblings |-> <<>>, nid |-> nid]

listResult(m) ==
  [value |-> Arr(gatherValue(m.result)),
   siblings |-> gatherSiblings(m.result), nid |-> m.nid]

\* nodeProcessors[MdNodeType.list]
listProcessor(node, pg, nid) ==
  listResult(mapProcessNode(node.children, pg, nid, 1))

listItemResult(r) ==
  [value |-> IF r.has THEN Obj(r.node) ELSE Undef,
   siblings |-> r.siblings, nid |-> r.nid]

\* nodeProcessors[MdNodeType.listItem]
listItemProcessor(node, pg, nid) ==
  listItemResult(processListItem(node, pg, nid))

parentResult(m) ==
  [value |-> Str(join(gatherValue(m.result), " ", 1)),
   siblings |-> gatherSiblings(m.result), nid |-> m.nid]

\* nodeProcessors.parent
parentProcessor(node, pg, nid) ==
  parentResult(mapProcessNode(node.children, pg, nid, 1))

\* the return statement of processNode, for the processor's result
wrapResult(node, pg, parentId, result) ==
  [defined |-> TRUE,
   mainNode |-> [id |-> nanoid(result.nid).id, page |-> pg,
                 parentId |-> parentId,
                 type |-> ConvertedType(node.type),
                 value |-> result.value],
   siblings |-> result.siblings,
   nid |-> nanoid(result.nid).nid]

processNode(node, pg, parentId, nid) ==
  IF node.type \in literals
  THEN wrapResult(node, pg, parentId, literalProcessor(node, nid))
  ELSE IF node.type = "list"
  THEN wrapResult(node, pg, parentId, listProcessor(node, pg, nid))
  ELSE IF node.type = "listItem"
  THEN wrapResult(node, pg, parentId, listItemProcessor(node, pg, nid))
  ELSE IF node.type \notin ignoreNodeTypes
  THEN wrapResult(node, pg, parentId, parentProcessor(node, pg, nid))
  ELSE [defined |-> FALSE, mainNode |-> NoNode, siblings |-> <<>>,
        nid |-> nid]

rootMainTwice(nodes) ==
  IF ~nodes.defined THEN [nodes |-> <<>>, nid |-> nodes.nid]
  ELSE [nodes |-> <<nodes.mainNode>> \o nodes.siblings \o <<nodes.mainNode>>,
        nid |-> nodes.nid]

\* if (!nodes) return []; return [nodes.mainNode, ...nodes.siblings]
rootNodes(nodes) ==
  IF ~nodes.defined THEN [nodes |-> <<>>, nid |-> nodes.nid]
  ELSE [nodes |-> <<nodes.mainNode>> \o nodes.siblings, nid |-> nodes.nid]

ProcessRootNodeMainTwice(node, pg, parentId, nid) ==
  rootMainTwice(processNode(node, pg, parentId, nid))

processRootNode(node, pg, parentId, nid) ==
  rootNodes(processNode(node, pg, parentId, nid))

\* parentIdManager.at(-1)?.depth || 0 and parentIdManager.at(-1)?.id
TopDepth(stack) == IF Len(stack) = 0 THEN 0 ELSE stack[Len(stack)].depth
TopId(stack) == IF Len(stack) = 0 THEN undefined ELSE stack[Len(stack)].id

RECURSIVE popLoop(_, _, _)
PopLoopKeepEqual(stack, depth, i) ==
  IF i > 0
  THEN IF depth >= TopDepth(SubSeq(stack, 1, Len(stack) - 1))
       THEN SubSeq(stack, 1, Len(stack) - 1)
       ELSE popLoop(SubSeq(stack, 1, Len(stack) - 1), depth, i - 1)
  ELSE stack

\* for (let i = parentIdManager.length; i > 0; i--) { pop(); if (...) break }
popLoop(stack, depth, i) ==
  IF i > 0
  THEN IF depth > TopDepth(SubSeq(stack, 1, Len(stack) - 1))
       THEN SubSeq(stack, 1, Len(stack) - 1)
       ELSE popLoop(SubSeq(stack, 1, Len(stack) - 1), depth, i - 1)
  ELSE stack

\* lines 352-359: the stack after the pops a heading causes
popped(stack, sourceNode) ==
  IF sourceNode.type = "heading" /\ sourceNode.depth <= TopDepth(stack)
  THEN popLoop(stack, sourceNode.depth, Len(stack))
  ELSE stack

\* lines 366-373: push the heading, append the nodes; stack is the stack
\* after the pops and processedNode the result of processRootNode
pushAndAppend(st, sourceNode, stack, processedNode) ==
  [stack |-> IF sourceNode.type = "heading"
             THEN Append(stack, [id |-> processedNode.nodes[1].id,
                                 depth |-> sourceNode.depth])
             ELSE stack,
   nodes |-> st.nodes \o processedNode.nodes,
   main  |-> IF processedNode.nodes = <<>> THEN undefined
             ELSE processedNode.nodes[1].id,
   nid   |-> processedNode.nid]

\* lines 360-364: processRootNode with the id on top of the popped stack
processUnder(st, sourceNode, pg, stack) ==
  pushAndAppend(st, sourceNode, stack,
                processRootNode(sourceNode, pg, TopId(stack), st.nid))

ForEachStepParentBeforePop(st, sourceNode, pg) ==
  pushAndAppend(st, sourceNode, popped(st.stack, sourceNode),
                processRootNode(sourceNode, pg, TopId(st.stack), st.nid))

\* one iteration of parsedMd.children.forEach in markdownToJson
forEachStep(st, sourceNode, pg) ==
  processUnder(st, sourceNode, pg, popped(st.stack, sourceNode))

InitFlat ==
  /\ page = 1
  /\ parsedMd = <<>>
  /\ parentIdManager = <<>>
  /\ processedNodes = <<>>
  /\ mainIds = <<>>
  /\ idAtCall = 1
  /\ nextId = 1
  /\ allNodes = <<>>
  /\ visited = 0

\* the assignments one forEach iteration makes, st being its result
Visit(sourceNode, st) ==
  /\ parsedMd' = Append(parsedMd, sourceNode)
  /\ parentIdManager' = st.stack
  /\ processedNodes' = st.nodes
  /\ mainIds' = Append(mainIds, st.main)
  /\ nextId' = st.nid

\* forEach visits the next top-level child of the page's AST
ForEachChild ==
  /\ page <= MaxPages
  /\ visited < MaxChildren
  /\ \E sourceNode \in TopLevel :
       Visit(sourceNode,
             forEachStep([stack |-> parentIdManager, nodes |-> processedNodes,
                          nid |-> nextId], sourceNode, page))
  /\ visited' = visited + 1
  /\ UNCHANGED <<page, idAtCall, allNodes>>
  /\ UNCHANGED rotVars /\ UNCHANGED itemVars

\* markdownToJson returns processedNodes; the caller appends them to the
\* document's nodes and calls markdownToJson for the next page, which starts
\* with a new parentIdManager and a new processedNodes
ReturnProcessedNodes ==
  /\ page <= MaxPages
  /\ allNodes' = allNodes \o processedNodes
  /\ page' = page + 1
  /\ parsedMd' = <<>>
  /\ parentIdManager' = <<>>
  /\ processedNodes' = <<>>
  /\ mainIds' = <<>>
  /\ idAtCall' = nextId
  /\ UNCHANGED <<nextId, visited>>
  /\ UNCHANGED rotVars /\ UNCHANGED itemVars

(***************************************************************************)
(* processListItem applied to one generated list item                      *)
(***************************************************************************)
NoItemOut == [has |-> FALSE, node |-> NoNode, siblings |-> <<>>, nid |-> 0]

IdleItem ==
  /\ itemIn = ListItem(<<>>)
  /\ itemOut = NoItemOut
  /\ itemPc = "idle"

InitItem ==
  /\ itemIn \in Items1
  /\ itemOut = NoItemOut
  /\ itemPc = "call"

CallProcessListItem ==
  /\ itemPc = "call"
  /\ itemOut' = processListItem(itemIn, page, nextId)
  /\ itemPc' = "done"
  /\ UNCHANGED itemIn
  /\ UNCHANGED rotVars /\ UNCHANGED flatVars

(***************************************************************************)
(* Specifications                                                          *)
(***************************************************************************)
Init == InitFlat /\ IdleRot /\ IdleItem
Next == ForEachChild \/ ReturnProcessedNodes
Spec == Init /\ [][Next]_vars

InitRotation == InitRot /\ InitFlat /\ IdleItem
NextRotation ==
  \/ \E i \in Trials : RotateImage(i)
  \/ \E i \in Trials : GetTextFromImage(i)
  \/ ReturnRotation
  \/ RejectRotation
SpecRotation == InitRotation /\ [][NextRotation]_vars

InitListItem ==
  /\ InitItem
  /\ IdleRot
  /\ page \in 1..MaxPages
  /\ parsedMd = <<>>
  /\ parentIdManager = <<>>
  /\ processedNodes = <<>>
  /\ mainIds = <<>>
  /\ idAtCall = 1
  /\ nextId = 1
  /\ allNodes = <<>>
  /\ visited = 0
NextListItem == CallProcessListItem
SpecListItem == InitListItem /\ [][NextListItem]_vars

(***************************************************************************)
(* Properties                                                              *)
(***************************************************************************)
Emitted == allNodes \o processedNodes

\* C1: every emitted node of the page whose parentId is set refers to the id
\* of a node that is an element of the same output sequence at an earlier
\* position.
ParentValidity ==
  \A k \in 1..Len(processedNodes) :
    processedNodes[k].parentId # undefined =>
      \E j \in 1..(k - 1) : processedNodes[j].id = processedNodes[k].parentId

IsHeadingAt(i) == parsedMd[i].type = "heading"

\* the top-level children before i that may be the parent of child i
Candidates(i) ==
  {j \in 1..(i - 1) :
     /\ IsHeadingAt(j)
     /\ IsHeadingAt(i) => parsedMd[j].depth < parsedMd[i].depth}

ExpectedParent(i) ==
  IF Candidates(i) = {} THEN undefined
  ELSE mainIds[CHOOSE j \in Candidates(i) : \A k \in Candidates(i) : k <= j]

NodeWithId(id) ==
  processedNodes[CHOOSE k \in 1..Len(processedNodes) :
                   processedNodes[k].id = id]

\* C2: the main node of a heading of depth d has as parentId the id of the
\* nearest preceding heading of the page with depth < d, the main node of any
\* other top-level block the id of the nearest preceding heading of the page,
\* and no parentId when there is none; headings of earlier pages are never
\* parents.
OutlineNesting ==
  \A i \in 1..Len(parsedMd) :
    mainIds[i] # undefined =>
      /\ \E k \in 1..Len(processedNodes) : processedNodes[k].id = mainIds[i]
      /\ NodeWithId(mainIds[i]).parentId = ExpectedParent(i)
      /\ \A k \in 1..Len(allNodes) :
           allNodes[k].id # NodeWithId(mainIds[i]).parentId

\* a heading attached to a heading that is not its immediate predecessor
OutlineSkipWitness ==
  /\ Len(parsedMd) = 3
  /\ \A i \in 1..3 : IsHeadingAt(i)
  /\ parsedMd[2].depth >= parsedMd[3].depth
  /\ parsedMd[1].depth < parsedMd[3].depth
  /\ NodeWithId(mainIds[3]).parentId = mainIds[1]

FirstMax(c) ==
  CHOOSE m \in Trials :
    /\ \A k \in Trials : c[k] <= c[m]
    /\ \A k \in 1..(m - 1) : c[k] < c[m]

\* the rotation the selection rule and the gate prescribe for confidences c
Prescribed(c) ==
  IF c[FirstMax(c)] >= MIN_ROTATION_CONFIDENCE /\ rotations[FirstMax(c)] # 0
  THEN rotations[FirstMax(c)]
  ELSE 0

\* C3: determineOptimalRotation returns r # 0 exactly when r is the first
\* rotation in the order 0, 90, 180, 270 attaining the maximum confidence and
\* that confidence is >= 60; otherwise it returns 0.
OrientationGate ==
  outcome = "returned" =>
    LET c == [i \in Trials |-> results[i].confidence]
    IN  /\ \A i \in Trials :
             rotations[i] # 0 =>
               (optimalRotation = rotations[i] <=>
                  /\ \A k \in Trials : c[k] <= c[i]
                  /\ \A k \in 1..(i - 1) : c[k] < c[i]
                  /\ c[i] >= MIN_ROTATION_CONFIDENCE)
        /\ (\A i \in Trials : rotations[i] # 0 =>
                                optimalRotation # rotations[i])
             => optimalRotation = 0

\* a rotation chosen on a tie with a later rotation, exactly at the threshold
OrientationGateWitness ==
  /\ outcome = "returned"
  /\ optimalRotation = 90
  /\ results[2].confidence = MIN_ROTATION_CONFIDENCE
  /\ results[4].confidence = MIN_ROTATION_CONFIDENCE
  /\ results[1].confidence < MIN_ROTATION_CONFIDENCE

\* C4: a failing step of one trial never makes determineOptimalRotation raise
\* an error: the trial counts as confidence 0 and a rotation is returned.
NoFatalFailure == outcome # "rejected"

\* C5: the choice is made only after all four trials have completed, and the
\* returned rotation depends only on the four confidences taken in the order
\* 0, 90, 180, 270, not on the order in which the trials completed.
JoinOrderIndependence ==
  outcome = "returned" =>
    /\ \A i \in Trials : trial[i].pc = "done"
    /\ Len(completed) = Len(rotations)
    /\ optimalRotation =
         Prescribed([i \in Trials |-> trial[i].confidence])

\* the trials completed in the reverse of the rotation order, with a tie
JoinOrderWitness ==
  /\ outcome = "returned"
  /\ completed = <<4, 3, 2, 1>>
  /\ trial[2].confidence = trial[4].confidence
  /\ trial[2].confidence > trial[1].confidence
  /\ trial[2].confidence >= trial[3].confidence
  /\ optimalRotation = 90

(* ---- list items ---- *)
ItemChildren == itemIn.children
ListChildren == {k \in 1..Len(ItemChildren) : ItemChildren[k].type = "list"}
TextChildren ==
  {k \in 1..Len(ItemChildren) :
     /\ ItemChildren[k].type # "list"
     /\ ItemChildren[k].type \notin ignoreNodeTypes}

RECURSIVE ConcatValues(_, _)
\* the values of the non-list, non-ignored children from child k on, appended
ConcatValues(ch, k) ==
  IF k > Len(ch) THEN ""
  ELSE (IF ch[k].type # "list" /\ ch[k].type \notin ignoreNodeTypes
        THEN toStr(processNode(ch[k], page, undefined, 1).mainNode.value)
        ELSE "")
         \o ConcatValues(ch, k + 1)

MergeBody ==
  /\ itemOut.node.value = Str(ConcatValues(ItemChildren, 1))
  /\ \A k \in 1..Len(itemOut.siblings) :
       itemOut.siblings[k].id # itemOut.node.id
  /\ Cardinality({k \in 1..Len(itemOut.siblings) :
                    /\ itemOut.siblings[k].parentId = itemOut.node.id
                    /\ itemOut.siblings[k].type = "list"})
       = Cardinality(ListChildren)
  /\ (ListChildren # {} /\
      \A t \in TextChildren : \E l \in ListChildren : l < t) =>
        /\ itemOut.node.type = "text"
        /\ itemOut.node.parentId = undefined
        /\ TextChildren = {} => itemOut.node.value = Str("")

\* C6 (as stated): processing a list item yields exactly one main node; the
\* values of the non-list, non-ignored children are appended in order onto
\* it; every nested list yields a separate sibling node whose parentId is the
\* main node's id; a list that comes before any text gets a synthesized
\* empty-text placeholder as main node.
ListItemMergeAlways ==
  itemPc = "done" => (itemOut.has /\ MergeBody)

\* C6 (amended): the same for every list item that has a nested list or a
\* non-ignored child; an item without any such child yields no main node and
\* no siblings.
ListItemMerge ==
  itemPc = "done" =>
    /\ itemOut.has <=> (ListChildren \cup TextChildren) # {}
    /\ itemOut.has => MergeBody
    /\ ~itemOut.has => itemOut.siblings = <<>>

\* a nested list, then text: the text is appended onto the placeholder and
\* the nested list's node is a sibling attached to it
ListItemMergeWitness ==
  /\ itemPc = "done"
  /\ Len(ItemChildren) = 2
  /\ ItemChildren[1].type = "list"
  /\ ItemChildren[1].children[1].children # <<>>
  /\ ItemChildren[2].type = "paragraph"
  /\ itemOut.node.value = Str("a")
  /\ Len(itemOut.siblings) >= 1
  /\ itemOut.siblings[1].parentId = itemOut.node.id

\* C7: with a fresh id from every nanoid() call, the ids of all emitted
\* nodes, over one page and over the concatenation of the pages, are pairwise
\* distinct.
Uniqueness ==
  \A j, k \in 1..Len(Emitted) : Emitted[j].id = Emitted[k].id => j = k

\* two pages with nodes, the second holding a nested list's node
UniquenessWitness ==
  /\ Len(allNodes) >= 2
  /\ \E k \in 1..Len(processedNodes) :
       processedNodes[k].type = "list" /\
       processedNodes[k].parentId # undefined

\* C8: every node processing a list item creates, built by processNode or
\* synthesized as placeholder, carries the page of the call.
PageCarried ==
  itemPc = "done" =>
    /\ itemOut.has => itemOut.node.page = page
    /\ \A k \in 1..Len(itemOut.siblings) : itemOut.siblings[k].page = page

RECURSIVE StripSeq(_, _)
\* the children without the nodes of ignored kinds, at every level
StripSeq(ch, k) ==
  IF k > Len(ch) THEN <<>>
  ELSE (IF ch[k].type \in ignoreNodeTypes THEN <<>>
        ELSE <<[ch[k] EXCEPT !.children = StripSeq(ch[k].children, 1)]>>)
         \o StripSeq(ch, k + 1)

RECURSIVE RunPage(_, _, _)
\* the forEach of markdownToJson run over children from state st
RunPage(st, ch, k) ==
  IF k > Len(ch) THEN st
  ELSE RunPage(forEachStep(st, ch[k], page), ch, k + 1)

\* C9: children of ignored kinds add no node and leave the heading stack
\* unchanged at the top level, and contribute neither a value nor a sibling
\* inside a parent or a list item: the page's output and stack are those of
\* the same AST with the ignored nodes removed, and empty when every
\* top-level child is ignored.
IgnoredDrop ==
  LET r == RunPage([stack |-> <<>>, nodes |-> <<>>, nid |-> idAtCall],
                   StripSeq(parsedMd, 1), 1)
  IN  /\ processedNodes = r.nodes
      /\ parentIdManager = r.stack
      /\ nextId = r.nid
      /\ (\A i \in 1..Len(parsedMd) : parsedMd[i].type \in ignoreNodeTypes)
           => processedNodes = <<>> /\ parentIdManager = <<>>
      /\ \A i \in 1..Len(parsedMd) :
           parsedMd[i].type \in ignoreNodeTypes <=> mainIds[i] = undefined

\* an ignored child at the top level after a heading, and one in a paragraph
IgnoredDropWitness ==
  /\ Len(parsedMd) = 3
  /\ parsedMd[1].type = "heading"
  /\ parsedMd[2].type \in ignoreNodeTypes
  /\ parsedMd[3].type = "paragraph"
  /\ Len(parsedMd[3].children) = 3
  /\ Len(processedNodes) = 2
  /\ processedNodes[2].value = Str("a b")
  /\ processedNodes[2].parentId = processedNodes[1].id

StackIncreasing ==
  \A k \in 1..(Len(parentIdManager) - 1) :
    parentIdManager[k].depth < parentIdManager[k + 1].depth

Headings == {i \in 1..Len(parsedMd) : IsHeadingAt(i)}

TopIsLastHeading ==
  IF Headings = {} THEN parentIdManager = <<>>
  ELSE LET last == CHOOSE i \in Headings : \A j \in Headings : j <= i
       IN  /\ parentIdManager # <<>>
           /\ parentIdManager[Len(parentIdManager)] =
                [id |-> mainIds[last], depth |-> parsedMd[last].depth]

PopExactly ==
  Len(parsedMd') = Len(parsedMd) + 1 =>
    LET n == parsedMd'[Len(parsedMd')]
        kept == SelectSeq(parentIdManager, LAMBDA e : e.depth < n.depth)
    IN  IF n.type = "heading"
        THEN /\ kept = SubSeq(parentIdManager, 1, Len(kept))
             /\ parentIdManager' =
                  Append(kept, [id |-> mainIds'[Len(mainIds')],
                                depth |-> n.depth])
        ELSE parentIdManager' = parentIdManager

\* C10: the depths in the heading stack increase strictly from bottom to
\* top; a heading of depth d removes exactly the entries at the top whose
\* depth is >= d and is then pushed; other children leave the stack alone;
\* the top of the stack is the most recently processed heading.
HeadingStackInvariant ==
  /\ [](StackIncreasing /\ TopIsLastHeading)
  /\ [][PopExactly]_vars

\* a heading that closed two open headings
HeadingStackWitness ==
  /\ Len(parsedMd) = 3
  /\ \A i \in 1..3 : IsHeadingAt(i)
  /\ parsedMd[1].depth < parsedMd[2].depth
  /\ parsedMd[3].depth <= parsedMd[1].depth
  /\ Len(parentIdManager) = 1
  /\ parentIdManager[1].id = mainIds[3]

====
